---- MODULE Spec2Model ----
(***************************************************************************)
(* Model of proj_cm33_ns/scan_task.c: the scan task loop, the scan         *)
(* callback run by the WCM worker thread, and the user button ISR.         *)
(*                                                                         *)
(* Three execution contexts interleave:                                    *)
(*   - scan_task      : one step per statement group of the while loop    *)
(*   - scan_callback  : run by the Wi-Fi provider while a scan is in flight*)
(*   - button ISR     : may fire between any two steps of the others       *)
(***************************************************************************)
EXTENDS Integers, Naturals, Sequences, FiniteSets, TLC

(***************************************************************************)
(* Bounds of the model.                                                    *)
(***************************************************************************)
\* callbacks the provider delivers before the completion marker of a pass
MaxRecords == 3
\* button events counted between two clears of the pending flag
MaxUnconsumed == 2
\* the pass index saturates here
MaxPass == 2

(***************************************************************************)
(* Program constants.                                                      *)
(***************************************************************************)
RESET_VAL == 0
UINT8_MOD == 256

\* enum scan_filter_mode, in ordinal order: the order in which successive
\* button presses select the filters (README, "Operation", steps 4 to 9)
SCAN_FILTER_NONE == 0
SCAN_FILTER_SSID == 1
SCAN_FILTER_MAC == 2
SCAN_FILTER_BAND == 3
SCAN_FILTER_RSSI == 4
SCAN_FILTER_INVALID == 5

\* sizes in bytes of what the switch cases write into scan_filter.param:
\* sizeof(SCAN_FOR_SSID_VALUE) for the value "MY_WIFI_SSID" of the README,
\* sizeof(scan_for_mac_value), and the size of an enumeration member
SSID_VALUE_SIZE == 13
MAC_SIZE == 6
ENUM_SIZE == 4

LiveModes == SCAN_FILTER_NONE .. (SCAN_FILTER_INVALID - 1)

\* cy_wcm_scan_status_t
CY_WCM_SCAN_INCOMPLETE == "CY_WCM_SCAN_INCOMPLETE"
CY_WCM_SCAN_COMPLETE == "CY_WCM_SCAN_COMPLETE"
ScanStatus == {CY_WCM_SCAN_INCOMPLETE, CY_WCM_SCAN_COMPLETE}

\* cy_rslt_t values of cy_wcm_start_scan that the task distinguishes
CY_RSLT_SUCCESS == "CY_RSLT_SUCCESS"
CY_WCM_RESULT_SCAN_IN_PROGRESS == "CY_WCM_RESULT_SCAN_IN_PROGRESS"
CY_RSLT_OTHER_FAILURE == "CY_RSLT_OTHER_FAILURE"

\* FreeRTOS task notification states of scan_task_handle
NOT_WAITING == "taskNOT_WAITING_NOTIFICATION"
WAITING == "taskWAITING_NOTIFICATION"
RECEIVED == "taskNOTIFICATION_RECEIVED"

(***************************************************************************)
(* Scan results handed to scan_callback: a NULL pointer, or a record whose *)
(* SSID is a NUL-terminated string (the characters before the NUL).        *)
(***************************************************************************)
\* cy_wcm_security_t values with a case in the switch of print_scan_result,
\* written without the CY_WCM_SECURITY_ prefix, and two values without one
KnownSecurity ==
    {"OPEN", "WEP_PSK", "WEP_SHARED", "WPA_TKIP_PSK", "WPA_AES_PSK",
     "WPA_MIXED_PSK", "WPA2_AES_PSK", "WPA2_TKIP_PSK", "WPA2_MIXED_PSK",
     "WPA2_FBT_PSK", "WPA3_SAE", "WPA3_WPA2_PSK", "IBSS_OPEN", "WPS_SECURE",
     "UNKNOWN", "WPA2_WPA_AES_PSK", "WPA2_WPA_MIXED_PSK", "WPA_TKIP_ENT",
     "WPA_AES_ENT", "WPA_MIXED_ENT", "WPA2_TKIP_ENT", "WPA2_AES_ENT",
     "WPA2_MIXED_ENT", "WPA2_FBT_ENT"}
OtherSecurity == {"FORCE_32_BIT", "UNLISTED"}
SecurityValues == KnownSecurity \cup OtherSecurity

NullResult == [isNull |-> TRUE, SSID |-> <<>>, security |-> "OPEN"]
SsidValues == {<<>>, <<"a">>, <<"b", "c">>}
ResultPtrs ==
    {NullResult}
        \cup {[isNull |-> FALSE, SSID |-> s, security |-> "OPEN"] : s \in SsidValues}

\* the results handed to a single scan_callback invocation taken on its own:
\* every security value with every SSID
CallbackInputs ==
    {NullResult}
        \cup {[isNull |-> FALSE, SSID |-> s, security |-> t] :
                 s \in SsidValues, t \in SecurityValues}

VARIABLES
    pc,                       \* position of scan_task
    button_pressed,           \* bool button_pressed
    scan_filter_mode_select,  \* enum scan_filter_mode scan_filter_mode_select
    scan_filter,              \* cy_wcm_scan_filter_t scan_filter (local of scan_task)
    result,                   \* cy_rslt_t result (local of scan_task)
    num_scan_result,          \* uint32_t num_scan_result
    notifyState,              \* notification state of scan_task_handle
    inflight,                 \* provider: an accepted scan has not completed yet
    delivered,                \* provider: callbacks delivered since the last table header
    issued_filter,            \* provider: filter argument of the last start_scan
    sink,                     \* rows printed since the last table header
    \* history variables
    pass,                     \* index of the pass being built or issued (saturating)
    consumed,                 \* button events consumed by the task, modulo 5
    unconsumed,               \* button events since the flag was last cleared
    unapplied,                \* a button event happened and no advance followed it yet
    modeAtCheck,              \* filter mode when the current iteration tested the flag
    eventsAtCheck,            \* events pending when it found the flag set, else 0
    nonEmpty,                 \* SSIDs of the non-empty records delivered since the header
    lastCb,                   \* arguments of the most recent scan_callback
    notified,                 \* counter values at the xTaskNotify calls since the header
    delays,                   \* vTaskDelay calls since the last cy_wcm_start_scan call
    selected,                 \* filter types issued by the last five iterations that did
    trail                     \* filter modes held before each of the last five advances

vars == <<pc, button_pressed, scan_filter_mode_select, scan_filter, result,
          num_scan_result, notifyState, inflight, delivered, issued_filter, sink,
          pass, consumed, unconsumed, unapplied, modeAtCheck, eventsAtCheck,
          nonEmpty, lastCb, notified, delays, selected, trail>>

taskVars == <<pc, scan_filter_mode_select, scan_filter, result>>
cbVars == <<num_scan_result, sink, lastCb, notified>>
histVars == <<pass, consumed, modeAtCheck, eventsAtCheck, trail, delays>>
selVars == <<selected>>

(***************************************************************************)
(* Pure helpers, one per expression of the code.                           *)
(***************************************************************************)
\* ++scan_filter_mode_select
IncrementDouble(m) == m + 2
Increment(m) == m + 1

\* if (... >= SCAN_FILTER_INVALID) scan_filter_mode_select = SCAN_FILTER_NONE
WrapInvalidGreater(m) == IF m > SCAN_FILTER_INVALID THEN SCAN_FILTER_NONE ELSE m
WrapInvalidToFirst(m) == IF m >= SCAN_FILTER_INVALID THEN SCAN_FILTER_SSID ELSE m
WrapInvalid(m) == IF m >= SCAN_FILTER_INVALID THEN SCAN_FILTER_NONE ELSE m

\* scan_filter.param is a union: its bytes, each tagged with the value it was
\* last written from ("ZERO" after the memset)
ParamIndex == 1 .. SSID_VALUE_SIZE
ZeroParam == [i \in ParamIndex |-> "ZERO"]

\* memset(&scan_filter, RESET_VAL, sizeof(cy_wcm_scan_filter_t))
ZeroFilter == [mode |-> "ZERO", param |-> ZeroParam]

\* a write of n bytes at the start of the union (memcpy or member assignment)
WriteParam(p, value, n) == [i \in ParamIndex |-> IF i <= n THEN value ELSE p[i]]

\* the switch on scan_filter_mode_select: the cases write scan_filter in place
BuildFilterSwapped(m, sf) ==
    CASE m = SCAN_FILTER_SSID ->
            [mode |-> "CY_WCM_SCAN_FILTER_TYPE_SSID",
             param |-> WriteParam(sf.param, "SCAN_FOR_SSID_VALUE", SSID_VALUE_SIZE)]
      [] m = SCAN_FILTER_MAC ->
            [mode |-> "CY_WCM_SCAN_FILTER_TYPE_RSSI",
             param |-> WriteParam(sf.param, "SCAN_FOR_RSSI_VALUE", ENUM_SIZE)]
      [] m = SCAN_FILTER_RSSI ->
            [mode |-> "CY_WCM_SCAN_FILTER_TYPE_MAC",
             param |-> WriteParam(sf.param, "SCAN_FOR_MAC_ADDRESS", MAC_SIZE)]
      [] m = SCAN_FILTER_BAND ->
            [mode |-> "CY_WCM_SCAN_FILTER_TYPE_BAND",
             param |-> WriteParam(sf.param, "SCAN_FOR_BAND_VALUE", ENUM_SIZE)]
      [] OTHER -> sf
BuildFilter(m, sf) ==
    CASE m = SCAN_FILTER_SSID ->
            [mode |-> "CY_WCM_SCAN_FILTER_TYPE_SSID",
             param |-> WriteParam(sf.param, "SCAN_FOR_SSID_VALUE", SSID_VALUE_SIZE)]
      [] m = SCAN_FILTER_RSSI ->
            [mode |-> "CY_WCM_SCAN_FILTER_TYPE_RSSI",
             param |-> WriteParam(sf.param, "SCAN_FOR_RSSI_VALUE", ENUM_SIZE)]
      [] m = SCAN_FILTER_MAC ->
            [mode |-> "CY_WCM_SCAN_FILTER_TYPE_MAC",
             param |-> WriteParam(sf.param, "SCAN_FOR_MAC_ADDRESS", MAC_SIZE)]
      [] m = SCAN_FILTER_BAND ->
            [mode |-> "CY_WCM_SCAN_FILTER_TYPE_BAND",
             param |-> WriteParam(sf.param, "SCAN_FOR_BAND_VALUE", ENUM_SIZE)]
      [] OTHER -> sf

\* the filter argument of cy_wcm_start_scan
NoFilter == [mode |-> "NULL", param |-> ZeroParam]
ScanArgumentAlwaysFilter(m, sf) == sf
ScanArgument(m, sf) == IF m = SCAN_FILTER_NONE THEN NoFilter ELSE sf

\* if (CY_RSLT_SUCCESS == result) xTaskNotifyWait(...); vTaskDelay(...)
AfterStartNeverWait(r) == "delay"
AfterStartAlwaysWait(r) == "wait"
AfterStartRetryAtOnce(r) == IF r = CY_RSLT_SUCCESS THEN "wait" ELSE "check"
AfterStart(r) == IF r = CY_RSLT_SUCCESS THEN "wait" ELSE "delay"

\* uint8_t ssid_len = strlen(SSID) when result_ptr is not NULL, else RESET_VAL
SsidLenIgnoreEmpty(result_ptr) == IF result_ptr.isNull THEN RESET_VAL ELSE 1
SsidLen(result_ptr) ==
    IF result_ptr.isNull THEN RESET_VAL ELSE Len(result_ptr.SSID) % UINT8_MOD

\* (RESET_VAL != ssid_len) && (status == CY_WCM_SCAN_INCOMPLETE)
IsCountedAnyStatus(ssid_len, status) == RESET_VAL # ssid_len
IsCounted(ssid_len, status) ==
    (RESET_VAL # ssid_len) /\ (status = CY_WCM_SCAN_INCOMPLETE)

\* num_scan_result++ (a uint32_t; a pass of at most MaxRecords callbacks
\* stays far below its wrap-around)
CountRecord(n, counted) == IF counted THEN n + 1 ELSE n

\* the number print_scan_result prints: num_scan_result as it is after the ++
PrintedNumberZeroBased(n) == n - 1
PrintedNumber(n) == n

\* the switch of print_scan_result: the SECURITY_ macro assigned to
\* security_type_string, written without the SECURITY_ prefix
SecurityTypeString(security) ==
    CASE security = "OPEN" -> "OPEN"
      [] security = "WEP_PSK" -> "WEP_PSK"
      [] security = "WEP_SHARED" -> "WEP_SHARED"
      [] security = "WPA_TKIP_PSK" -> "WEP_TKIP_PSK"
      [] security = "WPA_AES_PSK" -> "WPA_AES_PSK"
      [] security = "WPA_MIXED_PSK" -> "WPA_MIXED_PSK"
      [] security = "WPA2_AES_PSK" -> "WPA2_AES_PSK"
      [] security = "WPA2_TKIP_PSK" -> "WPA2_TKIP_PSK"
      [] security = "WPA2_MIXED_PSK" -> "WPA2_MIXED_PSK"
      [] security = "WPA2_FBT_PSK" -> "WPA2_FBT_PSK"
      [] security = "WPA3_SAE" -> "WPA3_SAE"
      [] security = "WPA3_WPA2_PSK" -> "WPA3_WPA2_PSK"
      [] security = "IBSS_OPEN" -> "IBSS_OPEN"
      [] security = "WPS_SECURE" -> "WPS_SECURE"
      [] security = "UNKNOWN" -> "UNKNOWN"
      [] security = "WPA2_WPA_AES_PSK" -> "WPA2_WPA_AES_PSK"
      [] security = "WPA2_WPA_MIXED_PSK" -> "WPA2_WPA_MIXED_PSK"
      [] security = "WPA_TKIP_ENT" -> "WPA_TKIP_ENT"
      [] security = "WPA_AES_ENT" -> "WPA_AES_ENT"
      [] security = "WPA_MIXED_ENT" -> "WPA_MIXED_ENT"
      [] security = "WPA2_TKIP_ENT" -> "WPA2_TKIP_ENT"
      [] security = "WPA2_AES_ENT" -> "WPA2_AES_ENT"
      [] security = "WPA2_MIXED_ENT" -> "WPA2_MIXED_ENT"
      [] security = "WPA2_FBT_ENT" -> "WPA2_FBT_ENT"
      [] OTHER -> "UNKNOWN"

\* the row print_scan_result prints (number, SSID and security columns)
PrintScanResult(n, result_ptr) ==
    [seq |-> PrintedNumber(n), SSID |-> result_ptr.SSID,
     security |-> SecurityTypeString(result_ptr.security)]

\* if (CY_WCM_SCAN_COMPLETE == status): the branch that resets and notifies
IsCompleteAlways(status) == TRUE
IsComplete(status) == status = CY_WCM_SCAN_COMPLETE

\* the counter as it is when xTaskNotify is called: the reset comes first
CounterAtNotifyBeforeReset(counted_n, reset_n) == counted_n
CounterAtNotify(counted_n, reset_n) == reset_n

\* if (CY_WCM_SCAN_COMPLETE == status) num_scan_result = RESET_VAL
ResetOnCompleteMissing(n, status) == n
ResetOnComplete(n, status) == IF status = CY_WCM_SCAN_COMPLETE THEN RESET_VAL ELSE n

\* xTaskNotify(scan_task_handle, ULVALUE_DATA, eNoAction): the notification
\* is latched whatever the task is doing
XTaskNotifyLost(state) == IF state = WAITING THEN RECEIVED ELSE state
XTaskNotify(state) == RECEIVED

\* cy_wcm_start_scan: refused while a scan is in progress
StartScanResults(busy) ==
    IF busy THEN {CY_WCM_RESULT_SCAN_IN_PROGRESS}
    ELSE {CY_RSLT_SUCCESS, CY_RSLT_OTHER_FAILURE}

Min(a, b) == IF a < b THEN a ELSE b
LastFive(s) == IF Len(s) > 5 THEN SubSeq(s, Len(s) - 4, Len(s)) ELSE s

(***************************************************************************)
(* Initial state: the globals as initialised, the task before its set-up.  *)
(***************************************************************************)
Init ==
    /\ pc = "init"
    /\ button_pressed = FALSE
    /\ scan_filter_mode_select = SCAN_FILTER_NONE
    /\ scan_filter = ZeroFilter
    /\ result = CY_RSLT_SUCCESS
    /\ num_scan_result = 0
    /\ notifyState = NOT_WAITING
    /\ inflight = FALSE
    /\ delivered = 0
    /\ issued_filter = NoFilter
    /\ sink = <<>>
    /\ pass = 0
    /\ consumed = 0
    /\ unconsumed = 0
    /\ unapplied = FALSE
    /\ modeAtCheck = SCAN_FILTER_NONE
    /\ eventsAtCheck = 0
    /\ nonEmpty = <<>>
    /\ lastCb = [result_ptr |-> NullResult, status |-> CY_WCM_SCAN_COMPLETE]
    /\ notified = <<>>
    /\ delays = 0
    /\ selected = <<>>
    /\ trail = <<>>

(***************************************************************************)
(* button_interrupt_handler                                                *)
(***************************************************************************)
ButtonIsrAdvancesMode ==
    /\ pc # "halted"
    /\ unconsumed < MaxUnconsumed
    /\ button_pressed' = TRUE
    /\ scan_filter_mode_select' = WrapInvalid(Increment(scan_filter_mode_select))
    /\ unconsumed' = unconsumed + 1
    /\ unapplied' = TRUE
    /\ UNCHANGED <<pc, scan_filter, result, cbVars, histVars, selVars,
                   notifyState, inflight, delivered, issued_filter, nonEmpty>>
ButtonIsr ==
    /\ pc # "halted"
    /\ unconsumed < MaxUnconsumed
    /\ button_pressed' = TRUE
    /\ unconsumed' = unconsumed + 1
    /\ unapplied' = TRUE
    /\ UNCHANGED <<taskVars, cbVars, histVars, selVars, notifyState, inflight,
                   delivered, issued_filter, nonEmpty>>

(***************************************************************************)
(* scan_task                                                               *)
(***************************************************************************)
\* app_sdio_init and cy_wcm_init succeed
TaskInitOk ==
    /\ pc = "init"
    /\ pc' = "check"
    /\ result' = CY_RSLT_SUCCESS
    /\ UNCHANGED <<button_pressed, scan_filter_mode_select, scan_filter, cbVars,
                   notifyState, inflight, delivered, issued_filter, histVars,
                   selVars, unconsumed, unapplied, nonEmpty>>

\* one of them fails: handle_app_error, which does not return
TaskInitFailReturns ==
    /\ pc = "init"
    /\ pc' = "check"
    /\ result' = CY_RSLT_OTHER_FAILURE
    /\ UNCHANGED <<button_pressed, scan_filter_mode_select, scan_filter, cbVars,
                   notifyState, inflight, delivered, issued_filter, histVars,
                   selVars, unconsumed, unapplied, nonEmpty>>
TaskInitFail ==
    /\ pc = "init"
    /\ pc' = "halted"
    /\ result' = CY_RSLT_OTHER_FAILURE
    /\ UNCHANGED <<button_pressed, scan_filter_mode_select, scan_filter, cbVars,
                   notifyState, inflight, delivered, issued_filter, histVars,
                   selVars, unconsumed, unapplied, nonEmpty>>

\* if (true == button_pressed)
TaskCheck ==
    /\ pc = "check"
    /\ IF button_pressed
       THEN /\ pc' = "incr"
            /\ consumed' = (consumed + 1) % 5
            /\ modeAtCheck' = scan_filter_mode_select
            /\ eventsAtCheck' = unconsumed
       ELSE /\ pc' = "build"
            /\ modeAtCheck' = scan_filter_mode_select
            /\ eventsAtCheck' = 0
            /\ UNCHANGED consumed
    /\ UNCHANGED <<button_pressed, scan_filter_mode_select, scan_filter, result,
                   cbVars, notifyState, inflight, delivered, issued_filter, pass,
                   trail, delays, selected, unconsumed, unapplied, nonEmpty>>

\* ++scan_filter_mode_select
TaskIncrement ==
    /\ pc = "incr"
    /\ pc' = "wrap"
    /\ scan_filter_mode_select' = Increment(scan_filter_mode_select)
    /\ trail' = LastFive(Append(trail, scan_filter_mode_select))
    /\ unapplied' = FALSE
    /\ UNCHANGED <<button_pressed, scan_filter, result, cbVars, notifyState,
                   inflight, delivered, issued_filter, pass, consumed, modeAtCheck,
                   eventsAtCheck, delays, selVars, unconsumed, nonEmpty>>

\* ... >= SCAN_FILTER_INVALID: reset to SCAN_FILTER_NONE
TaskWrap ==
    /\ pc = "wrap"
    /\ pc' = "clear"
    /\ scan_filter_mode_select' = WrapInvalid(scan_filter_mode_select)
    /\ UNCHANGED <<button_pressed, scan_filter, result, cbVars, notifyState,
                   inflight, delivered, issued_filter, histVars, selVars,
                   unconsumed, unapplied, nonEmpty>>

\* button_pressed = false
TaskClear ==
    /\ pc = "clear"
    /\ pc' = "build"
    /\ button_pressed' = FALSE
    /\ unconsumed' = 0
    /\ UNCHANGED <<scan_filter_mode_select, scan_filter, result, cbVars,
                   notifyState, inflight, delivered, issued_filter, histVars,
                   selVars, unapplied, nonEmpty>>

\* the switch and PRINT_SCAN_TEMPLATE
TaskBuild ==
    /\ pc = "build"
    /\ pc' = "start"
    /\ scan_filter' = BuildFilter(scan_filter_mode_select, scan_filter)
    /\ sink' = <<>>
    /\ nonEmpty' = <<>>
    /\ delivered' = 0
    /\ notified' = <<>>
    /\ pass' = Min(pass + 1, MaxPass)
    /\ UNCHANGED <<button_pressed, scan_filter_mode_select, result,
                   num_scan_result, lastCb, notifyState, inflight,
                   issued_filter, consumed, modeAtCheck, eventsAtCheck, trail,
                   delays, selVars, unconsumed, unapplied>>

\* result = cy_wcm_start_scan(...) and the test of result
TaskStartScanResetsMode ==
    /\ pc = "start"
    /\ \E r \in StartScanResults(inflight) :
          /\ result' = r
          /\ pc' = AfterStart(r)
          /\ inflight' = (inflight \/ r = CY_RSLT_SUCCESS)
          /\ scan_filter_mode_select' = IF r = CY_RSLT_SUCCESS
                                        THEN scan_filter_mode_select
                                        ELSE SCAN_FILTER_NONE
    /\ issued_filter' = ScanArgument(scan_filter_mode_select, scan_filter)
    /\ selected' = IF eventsAtCheck > 0
                   THEN LastFive(Append(selected, issued_filter'.mode))
                   ELSE selected
    /\ delays' = 0
    /\ UNCHANGED <<button_pressed, scan_filter, cbVars, notifyState, delivered,
                   pass, consumed, modeAtCheck, eventsAtCheck, trail, unconsumed,
                   unapplied, nonEmpty>>
TaskStartScan ==
    /\ pc = "start"
    /\ \E r \in StartScanResults(inflight) :
          /\ result' = r
          /\ pc' = AfterStart(r)
          /\ inflight' = (inflight \/ r = CY_RSLT_SUCCESS)
    /\ issued_filter' = ScanArgument(scan_filter_mode_select, scan_filter)
    /\ selected' = IF eventsAtCheck > 0
                   THEN LastFive(Append(selected, issued_filter'.mode))
                   ELSE selected
    /\ delays' = 0
    /\ UNCHANGED <<button_pressed, scan_filter_mode_select, scan_filter, cbVars,
                   notifyState, delivered, pass, consumed, modeAtCheck,
                   eventsAtCheck, trail, unconsumed, unapplied, nonEmpty>>

\* xTaskNotifyWait(..., portMAX_DELAY) is called
TaskNotifyWait ==
    /\ pc = "wait"
    /\ IF notifyState = RECEIVED
       THEN /\ pc' = "delay"
            /\ notifyState' = NOT_WAITING
       ELSE /\ pc' = "blocked"
            /\ notifyState' = WAITING
    /\ UNCHANGED <<button_pressed, scan_filter_mode_select, scan_filter, result,
                   cbVars, inflight, delivered, issued_filter, histVars,
                   selVars, unconsumed, unapplied, nonEmpty>>

\* the blocked task is woken by the notification and xTaskNotifyWait returns
\* (the block time is portMAX_DELAY: there is no other way out of the wait)
TaskWakeOnTimeout ==
    /\ pc = "blocked"
    /\ pc' = "delay"
    /\ notifyState' = NOT_WAITING
    /\ UNCHANGED <<button_pressed, scan_filter_mode_select, scan_filter, result,
                   cbVars, inflight, delivered, issued_filter, histVars,
                   selVars, unconsumed, unapplied, nonEmpty>>
TaskWake ==
    /\ pc = "blocked"
    /\ notifyState = RECEIVED
    /\ pc' = "delay"
    /\ notifyState' = NOT_WAITING
    /\ UNCHANGED <<button_pressed, scan_filter_mode_select, scan_filter, result,
                   cbVars, inflight, delivered, issued_filter, histVars,
                   selVars, unconsumed, unapplied, nonEmpty>>

\* vTaskDelay(pdMS_TO_TICKS(SCAN_DELAY_MS)) elapses
TaskDelay ==
    /\ pc = "delay"
    /\ pc' = "check"
    /\ delays' = delays + 1
    /\ UNCHANGED <<button_pressed, scan_filter_mode_select, scan_filter, result,
                   cbVars, notifyState, inflight, delivered, issued_filter,
                   pass, consumed, modeAtCheck, eventsAtCheck, trail, selVars,
                   unconsumed, unapplied, nonEmpty>>

TaskNext ==
    \/ TaskInitOk
    \/ TaskInitFail
    \/ TaskCheck
    \/ TaskIncrement
    \/ TaskWrap
    \/ TaskClear
    \/ TaskBuild
    \/ TaskStartScan
    \/ TaskNotifyWait
    \/ TaskWake
    \/ TaskDelay

(***************************************************************************)
(* scan_callback, run by the provider's worker thread                      *)
(***************************************************************************)
ScanCallback(result_ptr, status) ==
    LET ssid_len == SsidLen(result_ptr)
        counted == IsCounted(ssid_len, status)
        n1 == CountRecord(num_scan_result, counted)
        n2 == ResetOnComplete(n1, status)
    IN  /\ num_scan_result' = n2
        /\ sink' = IF counted
                   THEN Append(sink, PrintScanResult(n1, result_ptr))
                   ELSE sink
        /\ notifyState' = IF IsComplete(status)
                          THEN XTaskNotify(notifyState)
                          ELSE notifyState
        /\ notified' = IF IsComplete(status)
                       THEN Append(notified, CounterAtNotify(n1, n2))
                       ELSE notified
        /\ lastCb' = [result_ptr |-> result_ptr, status |-> status]

\* the provider reports one result of the scan in flight
ProviderRecord ==
    /\ inflight
    /\ delivered < MaxRecords
    /\ \E r \in ResultPtrs :
          /\ ScanCallback(r, CY_WCM_SCAN_INCOMPLETE)
          /\ nonEmpty' = IF ~r.isNull /\ r.SSID # <<>>
                         THEN Append(nonEmpty, r.SSID)
                         ELSE nonEmpty
    /\ delivered' = delivered + 1
    /\ UNCHANGED <<taskVars, button_pressed, inflight, issued_filter, histVars,
                   selVars, unconsumed, unapplied>>

\* the provider reports the end of the scan in flight
ProviderComplete ==
    /\ inflight
    /\ \E r \in ResultPtrs : ScanCallback(r, CY_WCM_SCAN_COMPLETE)
    /\ inflight' = FALSE
    /\ UNCHANGED <<taskVars, button_pressed, delivered, issued_filter, histVars,
                   selVars, unconsumed, unapplied, nonEmpty>>

Next ==
    \/ ButtonIsr
    \/ TaskNext
    \/ ProviderRecord
    \/ ProviderComplete

Spec == Init /\ [][Next]_vars

(***************************************************************************)
(* One scan_callback invocation taken on its own: any result, any status,  *)
(* any counter value and notification state at entry.                      *)
(***************************************************************************)
CallbackInit ==
    /\ pc = "cb_entry"
    /\ button_pressed = FALSE
    /\ scan_filter_mode_select = SCAN_FILTER_NONE
    /\ scan_filter = ZeroFilter
    /\ result = CY_RSLT_SUCCESS
    /\ num_scan_result \in 0 .. MaxRecords
    /\ notifyState \in {NOT_WAITING, WAITING}
    /\ inflight = TRUE
    /\ delivered = 0
    /\ issued_filter = NoFilter
    /\ sink = <<>>
    /\ pass = 1
    /\ consumed = 0
    /\ unconsumed = 0
    /\ unapplied = FALSE
    /\ modeAtCheck = SCAN_FILTER_NONE
    /\ eventsAtCheck = 0
    /\ nonEmpty = <<>>
    /\ lastCb \in [result_ptr : CallbackInputs, status : ScanStatus]
    /\ notified = <<>>
    /\ delays = 0
    /\ selected = <<>>
    /\ trail = <<>>

CallbackOnce ==
    /\ pc = "cb_entry"
    /\ pc' = "cb_exit"
    /\ ScanCallback(lastCb.result_ptr, lastCb.status)
    /\ UNCHANGED <<button_pressed, scan_filter_mode_select, scan_filter, result,
                   inflight, delivered, issued_filter, histVars, selVars,
                   unconsumed, unapplied, nonEmpty>>

CallbackSpec == CallbackInit /\ [][CallbackOnce]_vars

\* the scheduler runs the scan task whenever it is ready
TaskFairSpec == Spec /\ WF_vars(TaskNext)

\* ... and the provider ends every scan it has accepted
LiveSpec == Spec /\ WF_vars(TaskNext) /\ WF_vars(ProviderComplete)

TypeOK ==
    /\ pc \in {"init", "halted", "check", "incr", "wrap", "clear", "build",
               "start", "wait", "blocked", "delay"}
    /\ button_pressed \in BOOLEAN
    /\ scan_filter_mode_select \in SCAN_FILTER_NONE .. SCAN_FILTER_INVALID
    /\ num_scan_result \in 0 .. MaxRecords
    /\ notifyState \in {NOT_WAITING, WAITING, RECEIVED}
    /\ inflight \in BOOLEAN
    /\ delivered \in 0 .. MaxRecords
    /\ Len(sink) <= MaxRecords

(***************************************************************************)
(* Derived notions used by the properties.                                 *)
(***************************************************************************)
\* filter-mode advance as the task applies it: the increment, then the wrap
Advance(m) == WrapInvalid(Increment(m))

\* the task is inside the check / advance / clear sequence of an iteration
InAdvance == pc \in {"incr", "wrap"}

\* the step is a scan_callback invocation
CallbackStep == (inflight /\ delivered' = delivered + 1) \/ (inflight /\ ~inflight')

SeqNumbers(rows) == [i \in DOMAIN rows |-> rows[i].seq]
SeqNames(rows) == [i \in DOMAIN rows |-> rows[i].SSID]

(***************************************************************************)
(* Properties.                                                             *)
(***************************************************************************)

\* C1: whenever the task is outside the advance itself (in particular when
\* pass n is built and issued), the filter mode equals the number of button
\* events the task has consumed so far, modulo 5, counted from None; this
\* holds in every interleaving with records, completions, issuance failures
\* and presses that are still pending.
C1_ModeIsConsumedMod5 ==
    ~InAdvance => scan_filter_mode_select = (SCAN_FILTER_NONE + consumed) % 5

\* a pass is issued in mode None after five consumed events, with a press
\* still pending and after an issuance failure
C1_Witness ==
    /\ pc = "start"
    /\ Len(trail) = 5
    /\ consumed = 0
    /\ button_pressed
    /\ result = CY_RSLT_OTHER_FAILURE
    /\ scan_filter_mode_select = SCAN_FILTER_NONE

\* C2: the task is outside the wait only when no accepted pass is in flight,
\* so every start_scan it issues finds the provider idle and is never
\* answered with "scan in progress".
C2_NoScanWhileInFlight ==
    /\ (pc \notin {"wait", "blocked"} => ~inflight)
    /\ result # CY_WCM_RESULT_SCAN_IN_PROGRESS

\* a second pass has been accepted and is awaited
C2_Witness ==
    /\ pass >= 2
    /\ pc = "blocked"
    /\ inflight
    /\ result = CY_RSLT_SUCCESS

\* C3: when the completion callback has run before the task calls the wait,
\* the task still gets past the wait and reaches the delay.
C3_EarlyCompletionNotLost ==
    (pc = "wait" /\ ~inflight) ~> (pc = "delay")

\* the completion has been notified while the task has not yet called the wait
C3_Witness ==
    /\ pc = "wait"
    /\ ~inflight
    /\ notifyState = RECEIVED
    /\ lastCb.status = CY_WCM_SCAN_COMPLETE

\* C4: a start_scan that returns anything but success takes the task straight
\* to the delay; it never calls the wait for that pass.
C4_FailureSkipsWait ==
    [][(pc = "start" /\ pc' # "start" /\ result' # CY_RSLT_SUCCESS)
          => (pc' = "delay" /\ notifyState' = notifyState)]_vars

\* the delay has been reached after a refused scan
C4_Witness ==
    /\ pc = "delay"
    /\ result = CY_RSLT_OTHER_FAILURE
    /\ notifyState = NOT_WAITING
    /\ ~inflight

\* C5: when two or more button events were pending at the moment the task
\* found the flag set, the iteration applies exactly one advance: once the
\* advance is done the mode is the successor (cyclically) of the mode held
\* at the check.
C5_CoalescedAdvance ==
    (~InAdvance /\ trail # <<>> /\ eventsAtCheck >= 2)
        => scan_filter_mode_select = (modeAtCheck + 1) % 5

\* two events were pending at the check and the pass is issued one mode on
C5_Witness ==
    /\ pc = "start"
    /\ eventsAtCheck = 2
    /\ modeAtCheck = SCAN_FILTER_SSID
    /\ scan_filter_mode_select = SCAN_FILTER_MAC

\* C6: a button event that no advance has followed yet is still recorded in
\* the pending flag (it is never erased by the clear of an earlier advance).
C6_EventNeverErased ==
    unapplied => button_pressed

\* C7: the counter is 0 whenever a pass is built or issued, equals the number
\* of non-empty records delivered while the pass is in flight, and is 0
\* again from the completion on.
C7_CounterPerPass ==
    /\ (pc \in {"check", "incr", "wrap", "clear", "build", "start"}
           => num_scan_result = 0)
    /\ (inflight => num_scan_result = Len(nonEmpty))
    /\ (~inflight => num_scan_result = 0)

\* two non-empty records among three callbacks of a later pass
C7_Witness ==
    /\ pass >= 2
    /\ inflight
    /\ delivered = 3
    /\ num_scan_result = 2

\* C8: a callback whose record is absent or has an empty SSID never
\* increments the counter and never adds a row to the sink.
C8_EmptyNeverCounted ==
    [][(CallbackStep /\ (lastCb'.result_ptr.isNull \/ lastCb'.result_ptr.SSID = <<>>))
          => (num_scan_result' <= num_scan_result /\ sink' = sink)]_vars

\* an empty-name record arrived after two counted ones and changed nothing
C8_Witness ==
    /\ inflight
    /\ ~lastCb.result_ptr.isNull
    /\ lastCb.result_ptr.SSID = <<>>
    /\ lastCb.status = CY_WCM_SCAN_INCOMPLETE
    /\ num_scan_result = 2
    /\ Len(sink) = 2

\* C9: the rows printed since the table header are exactly the non-empty
\* records delivered in the pass, in order, numbered 1, 2, ..., k.
C9_RowsNumberedFromOne ==
    /\ SeqNames(sink) = nonEmpty
    /\ \A i \in DOMAIN sink : sink[i].seq = i

\* a later pass with 2 different non-empty records and 1 empty one, the
\* empty one not last: rows 1, 2
C9_Witness ==
    /\ pass >= 2
    /\ delivered = 3
    /\ SeqNumbers(sink) = <<1, 2>>
    /\ sink[1].SSID # sink[2].SSID
    /\ lastCb.result_ptr.SSID # <<>>

\* C10: five advances bring every live mode back to itself, as a property of
\* the advance function and as observed on the task: after five applied
\* advances the mode is the one held before the first of them.
C10_FiveAdvancesIdentity ==
    /\ \A m \in LiveModes : Advance(Advance(Advance(Advance(Advance(m))))) = m
    /\ (pc # "wrap" /\ Len(trail) = 5) => scan_filter_mode_select = trail[1]

\* five advances applied starting from a mode in the middle of the cycle
C10_Witness ==
    /\ pc = "build"
    /\ Len(trail) = 5
    /\ trail[1] = SCAN_FILTER_MAC
    /\ scan_filter_mode_select = SCAN_FILTER_MAC

\* the order in which the README ("Operation", steps 4 to 9) has successive
\* presses select the filters, as modes and as the type tags of the scans
ReadmeModeOrder ==
    <<SCAN_FILTER_NONE, SCAN_FILTER_SSID, SCAN_FILTER_MAC, SCAN_FILTER_BAND,
      SCAN_FILTER_RSSI>>
ReadmeTypeOrder ==
    <<"CY_WCM_SCAN_FILTER_TYPE_SSID", "CY_WCM_SCAN_FILTER_TYPE_MAC",
      "CY_WCM_SCAN_FILTER_TYPE_BAND", "CY_WCM_SCAN_FILTER_TYPE_RSSI", "NULL">>

\* C11 as stated: five consumed button events that start in mode None take
\* the mode through None, SSID, RSSI threshold, MAC address, frequency band
\* and back to None.
C11_RssiBeforeMac ==
    (~InAdvance /\ Len(trail) = 5 /\ trail[1] = SCAN_FILTER_NONE)
        => /\ trail = <<SCAN_FILTER_NONE, SCAN_FILTER_SSID, SCAN_FILTER_RSSI,
                        SCAN_FILTER_MAC, SCAN_FILTER_BAND>>
           /\ scan_filter_mode_select = SCAN_FILTER_NONE

\* C11: five consumed button events that start in mode None take the mode
\* through None, SSID, MAC address, frequency band, RSSI threshold and back
\* to None, in that order.
C11_ModeVisitOrder ==
    (~InAdvance /\ Len(trail) = 5 /\ trail[1] = SCAN_FILTER_NONE)
        => /\ trail = ReadmeModeOrder
           /\ scan_filter_mode_select = SCAN_FILTER_NONE

\* the fifth advance since mode None has been applied and its pass is built
C11_Witness ==
    /\ pc = "build"
    /\ trail = ReadmeModeOrder
    /\ scan_filter_mode_select = SCAN_FILTER_NONE
    /\ ~button_pressed

\* C12: the scans issued by iterations that consumed a press carry, press
\* after press, the SSID filter, the MAC address filter, the frequency band
\* filter, the RSSI filter and then no filter: each such scan carries the
\* successor of the previous one in that cycle, and five presses that end on
\* no filter went through exactly that sequence.
C12_PressesSelectReadmeOrder ==
    /\ \A i \in 1 .. (Len(selected) - 1) :
          \E k \in 1 .. 5 : /\ selected[i] = ReadmeTypeOrder[k]
                            /\ selected[i + 1] = ReadmeTypeOrder[(k % 5) + 1]
    /\ (Len(selected) = 5 /\ selected[5] = "NULL") => selected = ReadmeTypeOrder

\* five presses, each consumed by its own pass, the last one being awaited
C12_Witness ==
    /\ pc = "blocked"
    /\ selected = ReadmeTypeOrder
    /\ eventsAtCheck = 1
    /\ issued_filter = NoFilter

\* C13: wherever a scan is built, issued or awaited the filter mode is one of
\* the five live modes; SCAN_FILTER_INVALID is held only between the
\* increment and the wrap test, and no filter has been built from it.
C13_InvalidOnlyInsideAdvance ==
    /\ (pc \in {"build", "start", "wait", "blocked", "delay"}
           => scan_filter_mode_select \in LiveModes)
    /\ (scan_filter_mode_select = SCAN_FILTER_INVALID => pc = "wrap")
    /\ (pc = "wrap" => scan_filter_mode_select # SCAN_FILTER_NONE)

\* a scan is about to be issued in mode None right after the advance that
\* went through SCAN_FILTER_INVALID
C13_Witness ==
    /\ pc = "start"
    /\ eventsAtCheck > 0
    /\ trail # <<>>
    /\ trail[Len(trail)] = SCAN_FILTER_RSSI
    /\ scan_filter_mode_select = SCAN_FILTER_NONE

\* what each case of the switch makes of the descriptor: the type tag, the
\* configuration value it stores and the number of bytes the store covers
FilterTypeOf(m) ==
    CASE m = SCAN_FILTER_SSID -> "CY_WCM_SCAN_FILTER_TYPE_SSID"
      [] m = SCAN_FILTER_RSSI -> "CY_WCM_SCAN_FILTER_TYPE_RSSI"
      [] m = SCAN_FILTER_MAC -> "CY_WCM_SCAN_FILTER_TYPE_MAC"
      [] m = SCAN_FILTER_BAND -> "CY_WCM_SCAN_FILTER_TYPE_BAND"
ParamValueOf(m) ==
    CASE m = SCAN_FILTER_SSID -> "SCAN_FOR_SSID_VALUE"
      [] m = SCAN_FILTER_RSSI -> "SCAN_FOR_RSSI_VALUE"
      [] m = SCAN_FILTER_MAC -> "SCAN_FOR_MAC_ADDRESS"
      [] m = SCAN_FILTER_BAND -> "SCAN_FOR_BAND_VALUE"
ParamSizeOf(m) ==
    CASE m = SCAN_FILTER_SSID -> SSID_VALUE_SIZE
      [] m = SCAN_FILTER_RSSI -> ENUM_SIZE
      [] m = SCAN_FILTER_MAC -> MAC_SIZE
      [] m = SCAN_FILTER_BAND -> ENUM_SIZE

\* the descriptor carries the type tag of mode m and, in the union member
\* that tag selects, the configuration value of mode m
CarriesFilterOf(d, m) ==
    /\ d.mode = FilterTypeOf(m)
    /\ \A i \in 1 .. ParamSizeOf(m) : d.param[i] = ParamValueOf(m)

\* scan_filter after the switch has run for the modes SSID .. m in turn on
\* the descriptor zeroed before the loop
RECURSIVE BuiltUpTo(_)
BuiltUpTo(m) ==
    IF m = SCAN_FILTER_NONE THEN ZeroFilter ELSE BuildFilter(m, BuiltUpTo(m - 1))

\* the first start_scan has been issued and no later pass has been built
FirstPassIssued == pass = 1 /\ pc \in {"wait", "blocked", "delay"}

\* C14 as stated: the first scan issued after initialisation carries no
\* filter.
C14_FirstPassUnfiltered ==
    FirstPassIssued => issued_filter = NoFilter

\* C14: the first scan issued after initialisation carries no filter, unless
\* a button event was already pending when the task first tested the flag:
\* then it carries the SSID filter.
C14_FirstPassDefault ==
    FirstPassIssued =>
        IF eventsAtCheck = 0
        THEN issued_filter = NoFilter /\ trail = <<>>
        ELSE /\ trail = <<SCAN_FILTER_NONE>>
             /\ CarriesFilterOf(issued_filter, SCAN_FILTER_SSID)

\* the first pass is awaited, issued without a filter; a press that came
\* after the check is pending
C14_Witness ==
    /\ FirstPassIssued
    /\ pc = "blocked"
    /\ eventsAtCheck = 0
    /\ button_pressed
    /\ issued_filter = NoFilter

\* C15: a failed initialisation takes the task to the halt and nowhere else;
\* once halted it stays halted, it has built and issued no pass and never
\* does.
C15_InitFailureHalts ==
    /\ [][(pc = "init" /\ result' # CY_RSLT_SUCCESS) => pc' = "halted"]_vars
    /\ [][pc = "halted" =>
            (pc' = "halted" /\ UNCHANGED <<inflight, issued_filter, pass>>)]_vars
    /\ [](pc = "halted" => (pass = 0 /\ ~inflight /\ selected = <<>>))

\* the task has halted on an initialisation failure, with a press pending
C15_Witness ==
    /\ pc = "halted"
    /\ result = CY_RSLT_OTHER_FAILURE
    /\ button_pressed
    /\ pass = 0

C17_AdvanceBeforeBuild ==
    /\ []((pc \in {"build", "start"} /\ eventsAtCheck > 0)
             => scan_filter_mode_select = (modeAtCheck + 1) % 5)
    /\ [][(pc = "start" /\ pc' # "start" /\ eventsAtCheck > 0)
             => IF (modeAtCheck + 1) % 5 = SCAN_FILTER_NONE
                THEN issued_filter' = NoFilter
                ELSE CarriesFilterOf(issued_filter', (modeAtCheck + 1) % 5)]_vars

\* the iteration found the flag set in MAC mode and its scan was accepted
\* with the band filter
C17_Witness ==
    /\ pc = "wait"
    /\ result = CY_RSLT_SUCCESS
    /\ eventsAtCheck = 1
    /\ modeAtCheck = SCAN_FILTER_MAC
    /\ issued_filter.mode = "CY_WCM_SCAN_FILTER_TYPE_BAND"
    /\ issued_filter.param[1] = "SCAN_FOR_BAND_VALUE"

\* C18: while the completion of an accepted scan has not been delivered the
\* task stays in the wait: no step takes it out (no time-out), no pass is
\* built or issued, the mode is not advanced and a pending button event is
\* neither consumed nor cleared.
C18_BlockedUntilCompletion ==
    /\ [](inflight => pc \in {"wait", "blocked"})
    /\ [][(inflight /\ inflight')
             => /\ pc' \in {"wait", "blocked"}
                /\ (pc = "blocked" => pc' = "blocked")
                /\ UNCHANGED <<pass, consumed, scan_filter_mode_select,
                               issued_filter, trail>>
                /\ (button_pressed => button_pressed')]_vars

\* the task is blocked on a scan that has delivered all its records but not
\* its completion, with a button event pending
C18_Witness ==
    /\ pc = "blocked"
    /\ notifyState = WAITING
    /\ inflight
    /\ delivered = MaxRecords
    /\ button_pressed
    /\ unapplied

\* C19: once the task is in its loop it issues start_scan again and again,
\* for ever, provided the provider ends every accepted scan and the
\* scheduler keeps running the task (the delay elapses): wherever the task
\* is in the loop it reaches the start_scan call again, and every start_scan
\* call is made and answered.
C19_ScansForever ==
    /\ (pc \notin {"init", "halted"}) ~> (pc = "start")
    /\ (pc = "start") ~> (pc \in {"wait", "delay"})

\* a later pass is about to be issued after a refused scan, a consumed press
\* and with another press pending
C19_Witness ==
    /\ pc = "start"
    /\ pass >= 2
    /\ result = CY_RSLT_OTHER_FAILURE
    /\ trail # <<>>
    /\ button_pressed
    /\ num_scan_result = 0

\* the accepted pass has been completed and no record was delivered in it
ZeroRecordPassDone ==
    /\ pc \in {"wait", "blocked", "delay"}
    /\ result = CY_RSLT_SUCCESS
    /\ ~inflight
    /\ delivered = 0

\* C20: the completion of a pass that delivered no record leaves the sink
\* empty and the counter at 0 and notifies the task; from there the task
\* reaches the delay and then issues the next pass.
C20_ZeroRecordPass ==
    /\ [](ZeroRecordPassDone => (sink = <<>> /\ num_scan_result = 0))
    /\ [][(inflight /\ ~inflight' /\ delivered = 0)
             => (sink' = <<>> /\ num_scan_result' = 0 /\ notifyState' = RECEIVED)]_vars
    /\ (ZeroRecordPassDone ~> (pc = "delay"))
    /\ ((ZeroRecordPassDone /\ pc = "delay") ~> (pc = "start"))

\* a pass without any record was completed while the task was blocked, and
\* the task has reached the delay
C20_Witness ==
    /\ ZeroRecordPassDone
    /\ pc = "delay"
    /\ notifyState = NOT_WAITING
    /\ lastCb.status = CY_WCM_SCAN_COMPLETE
    /\ ~lastCb.result_ptr.isNull
    /\ lastCb.result_ptr.SSID # <<>>

\* C21: the row printed for a record shows, in the security column, the
\* string of the record's own security value when the value is one of the
\* known ones, and the Unknown string for every other value.
C21_EveryTagOwnString ==
    (pc = "cb_exit" /\ sink # <<>>)
        => sink[1].security = IF lastCb.result_ptr.security \in KnownSecurity
                              THEN lastCb.result_ptr.security
                              ELSE "UNKNOWN"

\* the task has been released from the wait of an accepted pass
Released == pc = "delay" /\ result = CY_RSLT_SUCCESS

\* C22: the counter is already 0 at every xTaskNotify call, so it is 0
\* whenever a notification is pending and whenever the task has been
\* released from the wait of a pass.
C22_ResetBeforeSignal ==
    /\ \A i \in DOMAIN notified : notified[i] = RESET_VAL
    /\ (notifyState = RECEIVED => num_scan_result = RESET_VAL)
    /\ (Released => num_scan_result = RESET_VAL)

\* the task has been released from a pass that counted two records
C22_Witness ==
    /\ Released
    /\ Len(nonEmpty) = 2
    /\ Len(sink) = 2
    /\ notified = <<RESET_VAL>>
    /\ num_scan_result = RESET_VAL

\* C23: a callback with status "incomplete" never notifies the task, each
\* callback with status "complete" notifies it once, and so the task is
\* notified exactly once per completed pass: not at all while the pass is in
\* flight, once when it has completed.
C23_OneSignalPerPass ==
    /\ [](Len(notified) <= 1)
    /\ [](inflight => (notified = <<>> /\ notifyState # RECEIVED))
    /\ []((pc \in {"wait", "blocked", "delay"} /\ result = CY_RSLT_SUCCESS
              /\ ~inflight) => Len(notified) = 1)
    /\ [][(CallbackStep /\ lastCb'.status = CY_WCM_SCAN_INCOMPLETE)
             => (notifyState' = notifyState /\ notified' = notified)]_vars
    /\ [][(CallbackStep /\ lastCb'.status = CY_WCM_SCAN_COMPLETE)
             => (notifyState' = RECEIVED
                 /\ Len(notified') = Len(notified) + 1)]_vars

\* the blocked task has been notified once, by the completion that followed
\* all the records of the pass
C23_Witness ==
    /\ pc = "blocked"
    /\ notifyState = RECEIVED
    /\ delivered = MaxRecords
    /\ Len(notified) = 1
    /\ lastCb.status = CY_WCM_SCAN_COMPLETE

\* C24: every cy_wcm_start_scan call but the first is preceded by exactly
\* one vTaskDelay since the previous call, whether that call succeeded or
\* failed.
C24_DelayBetweenIssuances ==
    /\ [](delays <= 1)
    /\ [][(pc = "start" /\ pc' # "start")
             => delays = IF pass = 1 THEN 0 ELSE 1]_vars

\* a scan is about to be issued one delay after a refused one
C24_Witness ==
    /\ pc = "start"
    /\ pass >= 2
    /\ delays = 1
    /\ result = CY_RSLT_OTHER_FAILURE
    /\ ~button_pressed

\* the step is a cy_wcm_start_scan call that is refused
RefusedStep == pc = "start" /\ pc' # "start" /\ result' # CY_RSLT_SUCCESS

\* the step is a run of button_interrupt_handler
IsrStep == unconsumed' = unconsumed + 1

\* the step is a step of scan_task
TaskStep == pc' # pc

\* C25: a refused start_scan leaves the filter mode, the counter and the
\* notification state as they were; the task goes through the delay and
\* calls start_scan again, and unless that next iteration consumed a button
\* event it hands over the same filter as the refused call.
C25_FailureRecoveredLocally ==
    /\ [][RefusedStep
             => (/\ scan_filter_mode_select' = scan_filter_mode_select
                 /\ num_scan_result' = num_scan_result
                 /\ notifyState' = notifyState
                 /\ ~inflight')]_vars
    /\ []((pc = "start" /\ result # CY_RSLT_SUCCESS /\ eventsAtCheck = 0)
             => ScanArgument(scan_filter_mode_select, scan_filter) = issued_filter)
    /\ ((pc = "delay" /\ result # CY_RSLT_SUCCESS) ~> (pc = "start"))

\* the scan with the SSID filter was refused and, no button event having
\* been consumed since, is about to be issued again with the SSID filter
C25_Witness ==
    /\ pc = "start"
    /\ result = CY_RSLT_OTHER_FAILURE
    /\ eventsAtCheck = 0
    /\ trail = <<SCAN_FILTER_NONE>>
    /\ scan_filter_mode_select = SCAN_FILTER_SSID
    /\ issued_filter.mode = "CY_WCM_SCAN_FILTER_TYPE_SSID"
    /\ num_scan_result = 0

\* C26: the button ISR changes nothing but the pending flag, a callback
\* changes nothing of the task or the flag, no step of the task changes the
\* counter, and the filter mode changes only in the advance at the top of an
\* iteration: it is unchanged from the start_scan call through the wait and
\* the delay, whatever button events arrive meanwhile.
C26_ContextsWriteOwnState ==
    /\ [][IsrStep
             => (/\ button_pressed'
                 /\ UNCHANGED <<taskVars, num_scan_result, sink, notifyState,
                                inflight, delivered, issued_filter>>)]_vars
    /\ [][CallbackStep
             => UNCHANGED <<taskVars, button_pressed, issued_filter>>]_vars
    /\ [][TaskStep => (num_scan_result' = num_scan_result)]_vars
    /\ [][scan_filter_mode_select' # scan_filter_mode_select => InAdvance]_vars
    /\ [][(pc \in {"build", "start", "wait", "blocked", "delay"})
             => (scan_filter_mode_select' = scan_filter_mode_select)]_vars

\* two button events arrived during the scan in flight in band mode, after
\* a record was counted; the mode is still the one the scan was issued in
C26_Witness ==
    /\ pc = "blocked"
    /\ inflight
    /\ unconsumed = 2
    /\ button_pressed
    /\ num_scan_result = 1
    /\ scan_filter_mode_select = SCAN_FILTER_BAND
    /\ issued_filter.mode = "CY_WCM_SCAN_FILTER_TYPE_BAND"

\* C27: outside the wait no notification is pending, in particular when
\* the task calls start_scan; and the task leaves the wait only on the one
\* notification sent since this pass's table header, by the completion of
\* the pass it issued.
C27_NoStaleSignal ==
    /\ [](pc \in {"init", "check", "incr", "wrap", "clear", "build", "start",
                  "delay"} => notifyState = NOT_WAITING)
    /\ [][(pc \in {"wait", "blocked"} /\ pc' = "delay")
             => (/\ notifyState = RECEIVED
                 /\ ~inflight
                 /\ Len(notified) = 1
                 /\ lastCb.status = CY_WCM_SCAN_COMPLETE)]_vars

\* a later pass is about to be issued after a completed one whose
\* notification has been consumed
C27_Witness ==
    /\ pc = "start"
    /\ pass >= 2
    /\ result = CY_RSLT_SUCCESS
    /\ lastCb.status = CY_WCM_SCAN_COMPLETE
    /\ notified = <<>>
    /\ notifyState = NOT_WAITING

\* C28: a callback with status "complete" adds no row and counts nothing,
\* whatever result is attached to it: it leaves the counter at 0, notifies
\* the task and changes nothing else of the program.
C28_CompletionNeverCounts ==
    [][(CallbackStep /\ lastCb'.status = CY_WCM_SCAN_COMPLETE)
          => (/\ sink' = sink
              /\ num_scan_result' = RESET_VAL
              /\ notifyState' = RECEIVED
              /\ UNCHANGED <<taskVars, button_pressed>>)]_vars

\* the completion callback carried a result with a non-empty SSID; the one
\* row of the pass is the record delivered before it
C28_Witness ==
    /\ pc = "blocked"
    /\ ~inflight
    /\ lastCb.status = CY_WCM_SCAN_COMPLETE
    /\ ~lastCb.result_ptr.isNull
    /\ lastCb.result_ptr.SSID = <<"b", "c">>
    /\ SeqNames(sink) = << <<"a">> >>
    /\ num_scan_result = RESET_VAL

====
